---- MODULE Spec2Model ----
(***************************************************************************)
(* Othello rules engine: the Board primitives of src/src/board.rs          *)
(* (adjacent, flips, flip, walk, walk_mut, on, Index) and the game state   *)
(* (place, turn) that drives them.                                         *)
(*                                                                         *)
(* Two specifications share the variables:                                 *)
(*   Spec      - a game from Board::new(), driven by place calls;          *)
(*   BoardSpec - the Board primitives called on a bounded family of        *)
(*               boards: the starting board with an arbitrary pattern of   *)
(*               MaxLen cells laid along a ray from a corner or from (2,2).*)
(* Every call is synchronous: an action performs the whole call and        *)
(* records its arguments, its result and the state before it; Return       *)
(* gives control back to the caller.                                       *)
(***************************************************************************)
EXTENDS Integers, Sequences, FiniteSets

VARIABLES
    board,      \* Board.0: the 64 cells, flat index x + y * width
    turn,       \* the side due to move
    moves,      \* history: number of successful place calls
    last,       \* history: the piece of the last successful place, or None
    pc,         \* "idle" between calls, "returned" when a call has returned
    call,       \* the operation and arguments of the call that returned
    result,     \* what that call returned
    old,        \* the board before that call
    oldTurn,    \* the side due to move before that call
    trace       \* the log of what that call evaluated: assertions, i8
                \* sums, conversions, loop iterations and cell accesses

vars == <<board, turn, moves, last, pc, call, result, old, oldTurn, trace>>

(* ------------------------------ bounds -------------------------------- *)

\* successful placements explored from a new game
MaxMoves == 5

\* length of the ray pattern laid on the boards of BoardSpec
MaxLen == 3

(* ------------------------------ Piece --------------------------------- *)

Black == "Black"
White == "White"
None == "None"

Piece == {Black, White}

Cell == {None, Black, White}

NotIdentity(p) == p

NotAlwaysWhite(p) == White

Not(p) == IF p = Black THEN White ELSE Black

(* ------------------------------ Board --------------------------------- *)

widthNine == 8 + 1

width == 8

WIDTH == width

DIRECTIONS ==
    << <<-1, -1>>, <<0, -1>>, <<1, -1>>,
       <<-1, 0>>,             <<1, 0>>,
       <<-1, 1>>,  <<0, 1>>,  <<1, 1>> >>

\* Index / IndexMut: the flat index of (x, y)
Idx(x, y) == x + y * width

Cells == 0 .. (width * width - 1)

NewBoardSwapped ==
    [i \in Cells |->
        IF i = Idx(3, 3) \/ i = Idx(4, 4) THEN Black
        ELSE IF i = Idx(4, 3) \/ i = Idx(3, 4) THEN White
        ELSE None]

NewBoard ==
    [i \in Cells |->
        IF i = Idx(3, 3) \/ i = Idx(4, 4) THEN White
        ELSE IF i = Idx(4, 3) \/ i = Idx(3, 4) THEN Black
        ELSE None]

\* the loop condition of walk, walk_mut and on
InWalk(x, y) == x >= 0 /\ y >= 0 /\ x < WIDTH /\ y < WIDTH

Ok(args) == [tag |-> "Ok", args |-> args]

Err(tag, args) == [tag |-> tag, args |-> args]

Panic == [tag |-> "Panic", args |-> <<>>]

adjacentNoDiagonal(b, x, y) ==
    IF ~(x < width /\ y < width) THEN Panic
    ELSE Ok(<< \E i \in 1 .. Len(DIRECTIONS) :
                LET dx == DIRECTIONS[i][1]
                    dy == DIRECTIONS[i][2]
                IN  /\ dx = 0 \/ dy = 0
                    /\ x + dx >= 0 /\ y + dy >= 0
                    /\ x + dx < width /\ y + dy < width
                    /\ b[Idx(x + dx, y + dy)] # None >>)

adjacent(b, x, y) ==
    IF ~(x < width /\ y < width) THEN Panic
    ELSE Ok(<< \E i \in 1 .. Len(DIRECTIONS) :
                LET dx == DIRECTIONS[i][1]
                    dy == DIRECTIONS[i][2]
                IN  /\ x + dx >= 0 /\ y + dy >= 0
                    /\ x + dx < width /\ y + dy < width
                    /\ b[Idx(x + dx, y + dy)] # None >>)

\* the loop of on, entered at (x, y): some cell of the ray holds piece
RECURSIVE onLoop(_, _, _, _, _, _)
onLoop(b, x, y, dx, dy, piece) ==
    IF ~InWalk(x, y) THEN FALSE
    ELSE IF b[Idx(x, y)] = piece THEN TRUE
    ELSE onLoop(b, x + dx, y + dy, dx, dy, piece)

on(b, x, y, dx, dy, piece) == onLoop(b, x + dx, y + dy, dx, dy, piece)

\* the loop of walk, entered at (x, y): the cells f is called on, in order
RECURSIVE walkLoop(_, _, _, _, _, _)
walkLoop(b, x, y, dx, dy, piece) ==
    IF ~InWalk(x, y) THEN << >>
    ELSE IF b[Idx(x, y)] = Not(piece)
         THEN << <<x, y>> >> \o walkLoop(b, x + dx, y + dy, dx, dy, piece)
         ELSE << >>

walkOneStep(b, x, y, dx, dy, piece) ==
    IF InWalk(x + dx, y + dy) /\ b[Idx(x + dx, y + dy)] = Not(piece)
    THEN << <<x + dx, y + dy>> >>
    ELSE << >>

walk(b, x, y, dx, dy, piece) == walkLoop(b, x + dx, y + dy, dx, dy, piece)

\* the loop of walk_mut with flip's closure board[cur] = Some(piece)
RECURSIVE walk_mutLoop(_, _, _, _, _, _)
walk_mutLoop(b, x, y, dx, dy, piece) ==
    IF ~InWalk(x, y) THEN b
    ELSE IF b[Idx(x, y)] = Not(piece)
         THEN walk_mutLoop([b EXCEPT ![Idx(x, y)] = piece],
                           x + dx, y + dy, dx, dy, piece)
         ELSE b

walk_mutNoWrite(b, x, y, dx, dy, piece) == b

RECURSIVE walk_mutClearLoop(_, _, _, _, _, _)
walk_mutClearLoop(b, x, y, dx, dy, piece) ==
    IF ~InWalk(x, y) THEN b
    ELSE IF b[Idx(x, y)] = Not(piece)
         THEN walk_mutClearLoop([b EXCEPT ![Idx(x, y)] = None],
                                x + dx, y + dy, dx, dy, piece)
         ELSE b

walk_mutClear(b, x, y, dx, dy, piece) ==
    walk_mutClearLoop(b, x + dx, y + dy, dx, dy, piece)

RECURSIVE walk_mutToggleLoop(_, _, _, _, _, _)
walk_mutToggleLoop(b, x, y, dx, dy, piece) ==
    IF ~InWalk(x, y) THEN b
    ELSE IF b[Idx(x, y)] # None
         THEN walk_mutToggleLoop([b EXCEPT ![Idx(x, y)] = Not(b[Idx(x, y)])],
                                 x + dx, y + dy, dx, dy, piece)
         ELSE b

walk_mutToggle(b, x, y, dx, dy, piece) ==
    walk_mutToggleLoop(b, x + dx, y + dy, dx, dy, piece)

walk_mut(b, x, y, dx, dy, piece) ==
    walk_mutLoop(b, x + dx, y + dy, dx, dy, piece)

\* flips: the for loop over DIRECTIONS from index i, count accumulated
RECURSIVE flipsLoop(_, _, _, _, _)
flipsLoop(b, x, y, piece, i) ==
    IF i > Len(DIRECTIONS) THEN 0
    ELSE LET dx == DIRECTIONS[i][1]
             dy == DIRECTIONS[i][2]
         IN  (IF on(b, x, y, dx, dy, piece)
              THEN Len(walk(b, x, y, dx, dy, piece))
              ELSE 0)
             + flipsLoop(b, x, y, piece, i + 1)

flips(b, x, y, piece) == flipsLoop(b, x, y, piece, 1)

\* flip: the for loop over DIRECTIONS from index i on the mutated board
RECURSIVE flipLoop(_, _, _, _, _)
flipLoop(b, x, y, piece, i) ==
    IF i > Len(DIRECTIONS) THEN b
    ELSE LET dx == DIRECTIONS[i][1]
             dy == DIRECTIONS[i][2]
             b1 == IF on(b, x, y, dx, dy, piece)
                   THEN walk_mut(b, x, y, dx, dy, piece)
                   ELSE b
         IN  flipLoop(b1, x, y, piece, i + 1)

flip(b, x, y, piece) == flipLoop(b, x, y, piece, 1)

(* ------------------- what the primitives evaluate --------------------- *)

\* one evaluation, <<kind, a, b, k>>:
\*   "assert"  the bounds assertion on (a, b)
\*   "i8"      i8::try_from(a) and i8::try_from(b)
\*   "add1"    the i8 sum x + dx = a (y + dy not evaluated)
\*   "add2"    the i8 sums x + dx = a and y + dy = b
\*   "usize"   usize::try_from(a) and usize::try_from(b)
\*   "index"   the cell (a, b) read or written through Index / IndexMut
\*   "iter"    iteration k of a walk loop: usize::try_from(a),
\*             usize::try_from(b), then cell (a, b) read or written
\* A call's evaluations are logged in the order the code makes them.
Ev(kind, a, b, k) == <<kind, a, b, k>>

\* the head of adjacent, flips and flip: the assertion, then the two
\* conversions to i8 when it holds
headEvents(x, y) ==
    IF x < width /\ y < width
    THEN <<Ev("assert", x, y, 0), Ev("i8", x, y, 0)>>
    ELSE <<Ev("assert", x, y, 0)>>

\* adjacent: the lazy iterator chain from direction i on; any() stops at
\* the first occupied neighbour
RECURSIVE adjacentEventsLoop(_, _, _, _)
adjacentEventsLoop(b, x, y, i) ==
    IF i > Len(DIRECTIONS) THEN << >>
    ELSE LET dx == DIRECTIONS[i][1]
             dy == DIRECTIONS[i][2]
             nx == x + dx
             ny == y + dy
         IN  IF nx < 0
             THEN <<Ev("add1", nx, 0, 0)>>
                     \o adjacentEventsLoop(b, x, y, i + 1)
             ELSE IF ny < 0
             THEN <<Ev("add2", nx, ny, 0)>>
                     \o adjacentEventsLoop(b, x, y, i + 1)
             ELSE IF ~(nx < width /\ ny < width)
             THEN <<Ev("add2", nx, ny, 0), Ev("usize", nx, ny, 0)>>
                     \o adjacentEventsLoop(b, x, y, i + 1)
             ELSE <<Ev("add2", nx, ny, 0), Ev("usize", nx, ny, 0),
                    Ev("index", nx, ny, 0)>>
                     \o (IF b[Idx(nx, ny)] # None THEN << >>
                         ELSE adjacentEventsLoop(b, x, y, i + 1))

adjacentEvents(b, x, y) ==
    IF x < width /\ y < width
    THEN headEvents(x, y) \o adjacentEventsLoop(b, x, y, 1)
    ELSE headEvents(x, y)

\* the loop of on at iteration k, entered at (x, y)
RECURSIVE onEventsLoop(_, _, _, _, _, _, _)
onEventsLoop(b, x, y, dx, dy, piece, k) ==
    IF ~InWalk(x, y) THEN << >>
    ELSE IF b[Idx(x, y)] = piece THEN <<Ev("iter", x, y, k)>>
    ELSE <<Ev("iter", x, y, k), Ev("add2", x + dx, y + dy, 0)>>
            \o onEventsLoop(b, x + dx, y + dy, dx, dy, piece, k + 1)

onEvents(b, x, y, dx, dy, piece) ==
    <<Ev("add2", x + dx, y + dy, 0)>>
        \o onEventsLoop(b, x + dx, y + dy, dx, dy, piece, 1)

\* the loop of walk and of walk_mut at iteration k, entered at (x, y);
\* walk_mut writes the cell it has just read, so both touch the same cells
RECURSIVE walkEventsLoop(_, _, _, _, _, _, _)
walkEventsLoop(b, x, y, dx, dy, piece, k) ==
    IF ~InWalk(x, y) THEN << >>
    ELSE IF b[Idx(x, y)] = Not(piece)
         THEN <<Ev("iter", x, y, k), Ev("add2", x + dx, y + dy, 0)>>
                 \o walkEventsLoop(b, x + dx, y + dy, dx, dy, piece, k + 1)
         ELSE <<Ev("iter", x, y, k)>>

walkEvents(b, x, y, dx, dy, piece) ==
    <<Ev("add2", x + dx, y + dy, 0)>>
        \o walkEventsLoop(b, x + dx, y + dy, dx, dy, piece, 1)

\* flips: the for loop over DIRECTIONS from index i
RECURSIVE flipsEventsLoop(_, _, _, _, _)
flipsEventsLoop(b, x, y, piece, i) ==
    IF i > Len(DIRECTIONS) THEN << >>
    ELSE LET dx == DIRECTIONS[i][1]
             dy == DIRECTIONS[i][2]
         IN  onEvents(b, x, y, dx, dy, piece)
                \o (IF on(b, x, y, dx, dy, piece)
                    THEN walkEvents(b, x, y, dx, dy, piece)
                    ELSE << >>)
                \o flipsEventsLoop(b, x, y, piece, i + 1)

flipsEvents(b, x, y, piece) ==
    IF x < width /\ y < width
    THEN headEvents(x, y) \o flipsEventsLoop(b, x, y, piece, 1)
    ELSE headEvents(x, y)

\* flip: the for loop over DIRECTIONS from index i on the mutated board
RECURSIVE flipEventsLoop(_, _, _, _, _)
flipEventsLoop(b, x, y, piece, i) ==
    IF i > Len(DIRECTIONS) THEN << >>
    ELSE LET dx == DIRECTIONS[i][1]
             dy == DIRECTIONS[i][2]
         IN  IF on(b, x, y, dx, dy, piece)
             THEN onEvents(b, x, y, dx, dy, piece)
                     \o walkEvents(b, x, y, dx, dy, piece)
                     \o flipEventsLoop(walk_mut(b, x, y, dx, dy, piece),
                                       x, y, piece, i + 1)
             ELSE onEvents(b, x, y, dx, dy, piece)
                     \o flipEventsLoop(b, x, y, piece, i + 1)

flipEvents(b, x, y, piece) ==
    IF x < width /\ y < width
    THEN headEvents(x, y) \o flipEventsLoop(b, x, y, piece, 1)
    ELSE headEvents(x, y)

(* ---------------------------- GameState ------------------------------- *)

\* the checks of place in their order; Ok when all pass
PlaceResultTurnFirst(b, t, x, y, piece) ==
    IF piece # t THEN Err("Turn", <<piece>>)
    ELSE IF x >= width \/ y >= width THEN Err("OutOfBounds", <<x, y>>)
    ELSE IF ~adjacent(b, x, y).args[1] THEN Err("NotAdjacent", <<x, y>>)
    ELSE IF b[Idx(x, y)] # None THEN Err("Occupied", <<x, y>>)
    ELSE IF flips(b, x, y, piece) = 0 THEN Err("NoFlips", <<x, y>>)
    ELSE Ok(<<>>)

PlaceResultNoBounds(b, t, x, y, piece) ==
    IF piece # t THEN Err("Turn", <<piece>>)
    ELSE IF Idx(x, y) \notin DOMAIN b THEN Panic
    ELSE IF b[Idx(x, y)] # None THEN Err("Occupied", <<x, y>>)
    ELSE IF adjacent(b, x, y).tag = "Panic" THEN Panic
    ELSE IF ~adjacent(b, x, y).args[1] THEN Err("NotAdjacent", <<x, y>>)
    ELSE IF flips(b, x, y, piece) = 0 THEN Err("NoFlips", <<x, y>>)
    ELSE Ok(<<>>)

PlaceResult(b, t, x, y, piece) ==
    IF x >= width \/ y >= width THEN Err("OutOfBounds", <<x, y>>)
    ELSE IF piece # t THEN Err("Turn", <<piece>>)
    ELSE IF b[Idx(x, y)] # None THEN Err("Occupied", <<x, y>>)
    ELSE IF ~adjacent(b, x, y).args[1] THEN Err("NotAdjacent", <<x, y>>)
    ELSE IF flips(b, x, y, piece) = 0 THEN Err("NoFlips", <<x, y>>)
    ELSE Ok(<<>>)

\* the board place leaves behind when its checks gave r
PlaceBoardWriteFirst(b, r, x, y, piece) ==
    IF r.tag \in {"Ok", "NoFlips"}
    THEN [flip(b, x, y, piece) EXCEPT ![Idx(x, y)] = piece]
    ELSE b

PlaceBoard(b, r, x, y, piece) ==
    IF r.tag = "Ok"
    THEN [flip(b, x, y, piece) EXCEPT ![Idx(x, y)] = piece]
    ELSE b

\* the side due to move that place leaves behind
PlaceTurn(t, r, piece) == IF r.tag = "Ok" THEN Not(piece) ELSE t

\* what place evaluates in the primitives it gets to call before it
\* returns r
PlaceEvents(b, r, x, y, piece) ==
    (IF r.tag \in {"Occupied", "NotAdjacent", "NoFlips", "Ok"}
     THEN <<Ev("index", x, y, 0)>> ELSE << >>)
        \o (IF r.tag \in {"NotAdjacent", "NoFlips", "Ok"}
            THEN adjacentEvents(b, x, y) ELSE << >>)
        \o (IF r.tag \in {"NoFlips", "Ok"}
            THEN flipsEvents(b, x, y, piece) ELSE << >>)
        \o (IF r.tag = "Ok"
            THEN flipEvents(b, x, y, piece) \o <<Ev("index", x, y, 0)>>
            ELSE << >>)

NoCall == [op |-> "none", x |-> 0, y |-> 0, piece |-> Black]

NoResult == [tag |-> "none", args |-> <<>>]

\* State::new(): the starting board, Black to move
Init ==
    /\ board = NewBoard
    /\ turn = Black
    /\ moves = 0
    /\ last = None
    /\ pc = "idle"
    /\ call = NoCall
    /\ result = NoResult
    /\ old = board
    /\ oldTurn = turn
    /\ trace = << >>

\* place(x, y, piece); x or y = width stands for every coordinate >= 8
Place ==
    /\ pc = "idle"
    /\ moves < MaxMoves
    /\ \E x \in 0 .. width, y \in 0 .. width, piece \in Piece :
        /\ call' = [op |-> "place", x |-> x, y |-> y, piece |-> piece]
        /\ result' = PlaceResult(board, turn, x, y, piece)
        /\ board' = PlaceBoard(board, result', x, y, piece)
        /\ turn' = PlaceTurn(turn, result', piece)
        /\ moves' = IF result'.tag = "Ok" THEN moves + 1 ELSE moves
        /\ last' = IF result'.tag = "Ok" THEN piece ELSE last
        /\ trace' = PlaceEvents(board, result', x, y, piece)
    /\ old' = board
    /\ oldTurn' = turn
    /\ pc' = "returned"

\* the caller takes the result
Return ==
    /\ pc = "returned"
    /\ pc' = "idle"
    /\ call' = NoCall
    /\ result' = NoResult
    /\ old' = board
    /\ oldTurn' = turn
    /\ trace' = << >>
    /\ UNCHANGED <<board, turn, moves, last>>

Next == Place \/ Return

Spec == Init /\ [][Next]_vars

(* ------------------- Board primitives on any board -------------------- *)

PatternOrigins == { <<0, 0>>, <<width - 1, width - 1>>, <<2, 2>> }

\* base with s[k] written at o + (k-1)*d for the k that stay on the board
Overlay(base, o, d, s) ==
    [i \in Cells |->
        IF \E k \in 1 .. MaxLen :
              /\ InWalk(o[1] + (k - 1) * d[1], o[2] + (k - 1) * d[2])
              /\ Idx(o[1] + (k - 1) * d[1], o[2] + (k - 1) * d[2]) = i
        THEN s[CHOOSE k \in 1 .. MaxLen :
                  /\ InWalk(o[1] + (k - 1) * d[1], o[2] + (k - 1) * d[2])
                  /\ Idx(o[1] + (k - 1) * d[1], o[2] + (k - 1) * d[2]) = i]
        ELSE base[i]]

BoardInit ==
    /\ \E o \in PatternOrigins, i \in 1 .. Len(DIRECTIONS),
          s \in [1 .. MaxLen -> Cell] :
            board = Overlay(NewBoard, o, DIRECTIONS[i], s)
    /\ turn = Black
    /\ moves = 0
    /\ last = None
    /\ pc = "idle"
    /\ call = NoCall
    /\ result = NoResult
    /\ old = board
    /\ oldTurn = turn
    /\ trace = << >>

CallAdjacent ==
    /\ pc = "idle"
    /\ \E x \in 0 .. width - 1, y \in 0 .. width - 1 :
        /\ call' = [op |-> "adjacent", x |-> x, y |-> y, piece |-> Black]
        /\ result' = adjacent(board, x, y)
        /\ trace' = adjacentEvents(board, x, y)
    /\ old' = board
    /\ oldTurn' = turn
    /\ pc' = "returned"
    /\ UNCHANGED <<board, turn, moves, last>>

CallFlips ==
    /\ pc = "idle"
    /\ \E x \in 0 .. width - 1, y \in 0 .. width - 1, piece \in Piece :
        /\ call' = [op |-> "flips", x |-> x, y |-> y, piece |-> piece]
        /\ result' = Ok(<<flips(board, x, y, piece)>>)
        /\ trace' = flipsEvents(board, x, y, piece)
    /\ old' = board
    /\ oldTurn' = turn
    /\ pc' = "returned"
    /\ UNCHANGED <<board, turn, moves, last>>

CallFlip ==
    /\ pc = "idle"
    /\ \E x \in 0 .. width - 1, y \in 0 .. width - 1, piece \in Piece :
        /\ call' = [op |-> "flip", x |-> x, y |-> y, piece |-> piece]
        /\ result' = Ok(<<>>)
        /\ board' = flip(board, x, y, piece)
        /\ trace' = flipEvents(board, x, y, piece)
    /\ old' = board
    /\ oldTurn' = turn
    /\ pc' = "returned"
    /\ UNCHANGED <<turn, moves, last>>

\* !piece
CallNot ==
    /\ pc = "idle"
    /\ \E piece \in Piece :
        /\ call' = [op |-> "not", x |-> 0, y |-> 0, piece |-> piece]
        /\ result' = Ok(<<Not(piece)>>)
    /\ old' = board
    /\ oldTurn' = turn
    /\ trace' = << >>
    /\ pc' = "returned"
    /\ UNCHANGED <<board, turn, moves, last>>

\* a read-only call hands the same board back for the next call; a flip
\* call is the last one made on an input board
ReturnRead ==
    /\ call.op \in {"adjacent", "flips", "not"}
    /\ Return

BoardNext == CallAdjacent \/ CallFlips \/ CallFlip \/ CallNot \/ ReturnRead

BoardSpec == BoardInit /\ [][BoardNext]_vars

(* ----------------------- the rules, as specified ---------------------- *)

Opponent(p) == CHOOSE q \in Piece : q # p

OnBoard(x, y) == x \in 0 .. 7 /\ y \in 0 .. 7

At(b, x, y) == b[x + 8 * y]

Dirs == { d \in (-1 .. 1) \X (-1 .. 1) : d # <<0, 0>> }

\* the k-th cell from (x, y) in direction d holds p
Holds(b, x, y, d, k, p) ==
    /\ OnBoard(x + k * d[1], y + k * d[2])
    /\ At(b, x + k * d[1], y + k * d[2]) = p

\* length of the run of opponent pieces starting next to (x, y)
RunLen(b, x, y, d, piece) ==
    CHOOSE k \in 0 .. 7 :
        /\ \A i \in 1 .. k : Holds(b, x, y, d, i, Opponent(piece))
        /\ ~Holds(b, x, y, d, k + 1, Opponent(piece))

\* the run in direction d is closed off by a piece of the mover's colour
Sandwiched(b, x, y, d, piece) ==
    /\ RunLen(b, x, y, d, piece) >= 1
    /\ Holds(b, x, y, d, RunLen(b, x, y, d, piece) + 1, piece)

Occupied(b) == { i \in Cells : b[i] # None }

Returned(op) == pc = "returned" /\ call.op = op

(* ------------------------------ claims -------------------------------- *)

\* the starting position, written out
StartLayout ==
    [i \in 0 .. 63 |->
        IF i \in {3 + 8 * 3, 4 + 8 * 4} THEN "White"
        ELSE IF i \in {4 + 8 * 3, 3 + 8 * 4} THEN "Black"
        ELSE "None"]

Count(b, p) == Cardinality({ i \in Cells : b[i] = p })

\* some neighbour of (x, y) on the board holds a piece
Touches(b, x, y) == \E d \in Dirs : \E p \in Piece : Holds(b, x, y, d, 1, p)

C2_FailureLeavesGame ==
    (Returned("place") /\ result.tag # "Ok") =>
        /\ \A i \in 0 .. 63 : board[i] = old[i]
        /\ turn = oldTurn

\* C2 witness: an adjacent, non-capturing call has returned NoFlips after
\* an earlier successful move.
C2_Witness ==
    /\ Returned("place")
    /\ result.tag = "NoFlips"
    /\ moves > 0

\* C3: a new game has Black due to move; the side due to move changes only
\* on a successful place, to the opponent of the piece placed, so it is
\* Black iff the number of successes is even; a place by the side that has
\* just moved fails with Turn (for coordinates on the board).
C3_Inv ==
    /\ (turn = "Black") <=> (moves % 2 = 0)
    /\ last # None => turn = Opponent(last)
    /\ Returned("place") =>
          IF result.tag = "Ok"
          THEN oldTurn = call.piece /\ turn = Opponent(call.piece)
          ELSE turn = oldTurn

C3_Step ==
    /\ turn' # turn => (call'.op = "place" /\ result'.tag = "Ok")
    /\ ( /\ call'.op = "place"
         /\ last # None
         /\ call'.piece = last
         /\ OnBoard(call'.x, call'.y) )
          => result' = Err("Turn", <<last>>)

C4_SuccessCaptures ==
    Returned("place") =>
        /\ result.tag = "Ok" =>
              \E d \in Dirs : Sandwiched(old, call.x, call.y, d, call.piece)
        /\ ( /\ OnBoard(call.x, call.y)
             /\ call.piece = oldTurn
             /\ At(old, call.x, call.y) = None
             /\ \E d \in Dirs : \E p \in Piece :
                    Holds(old, call.x, call.y, d, 1, p)
             /\ ~\E d \in Dirs :
                    Sandwiched(old, call.x, call.y, d, call.piece) )
           => result = Err("NoFlips", <<call.x, call.y>>)

\* the <<direction, step>> pairs of the sandwiched runs: one per capture
CapturePairs(b, x, y, piece) ==
    { dk \in Dirs \X (1 .. 7) :
        /\ Sandwiched(b, x, y, dk[1], piece)
        /\ dk[2] <= RunLen(b, x, y, dk[1], piece) }

\* the cells a move at (x, y) captures
Captured(b, x, y, piece) ==
    { (x + dk[2] * dk[1][1]) + 8 * (y + dk[2] * dk[1][2]) :
        dk \in CapturePairs(b, x, y, piece) }

\* C5: flips(x, y, piece) is the sum over the 8 directions of the length
\* of the opponent run next to (x, y), counted only when the cell right
\* after the run is on the board and holds piece.
C5_FlipsIsSandwichCount ==
    Returned("flips") =>
        result = Ok(<<Cardinality(CapturePairs(old, call.x, call.y,
                                               call.piece))>>)

\* C6: flip(x, y, piece) sets to piece exactly the cells of the sandwiched
\* opponent runs and leaves every other cell unchanged.
C6_FlipSetsSandwiched ==
    Returned("flip") =>
        LET captured == Captured(old, call.x, call.y, call.piece)
        IN  \A i \in 0 .. 63 :
                board[i] = IF i \in captured THEN call.piece ELSE old[i]

\* C7: after a successful place(x, y, piece) the cell (x, y), empty
\* before, holds piece and the other cells are those of the old board with
\* flip(x, y, piece) applied; from a new game place(2, 3, Black) succeeds
\* and leaves Black on (2,3), (3,3), (4,3), (3,4) and White on (4,4).
C7_PlaceAppliesFlip ==
    /\ (Returned("place") /\ result.tag = "Ok") =>
          /\ At(old, call.x, call.y) = "None"
          /\ At(board, call.x, call.y) = call.piece
          /\ LET flipped == flip(old, call.x, call.y, call.piece)
             IN  \A i \in 0 .. 63 :
                    i # call.x + 8 * call.y => board[i] = flipped[i]
    /\ ( /\ Returned("place")
         /\ call.x = 2 /\ call.y = 3 /\ call.piece = "Black"
         /\ oldTurn = "Black"
         /\ old = StartLayout ) =>
          /\ result = Ok(<<>>)
          /\ board = [i \in 0 .. 63 |->
                        IF i \in {2 + 8 * 3, 3 + 8 * 3, 4 + 8 * 3, 3 + 8 * 4}
                        THEN "Black"
                        ELSE IF i = 4 + 8 * 4 THEN "White" ELSE "None"]

\* C7 witness: place(2, 3, Black) has succeeded on the new game.
C7_Witness ==
    /\ Returned("place")
    /\ call.x = 2 /\ call.y = 3 /\ call.piece = "Black"
    /\ result.tag = "Ok"
    /\ old = StartLayout

\* the cells a returned call turned from the opponent's colour to piece
Flipped ==
    { i \in 0 .. 63 : old[i] = Opponent(call.piece) /\ board[i] = call.piece }

\* C8 as stated: after a successful place the number of occupied cells has
\* increased by 1 plus the number of cells flipped.
C8_Original ==
    (Returned("place") /\ result.tag = "Ok") =>
        Cardinality(Occupied(board))
            = Cardinality(Occupied(old)) + 1 + Cardinality(Flipped)

\* C8 amended: after a successful place the number of occupied cells has
\* increased by exactly 1; the flipped cells only change colour, so the
\* mover's pieces are 1 plus the number flipped more and the opponent's
\* are the number flipped fewer.
C8_CountGrowsByOne ==
    (Returned("place") /\ result.tag = "Ok") =>
        /\ Cardinality(Occupied(board)) = Cardinality(Occupied(old)) + 1
        /\ Count(board, call.piece)
              = Count(old, call.piece) + 1 + Cardinality(Flipped)
        /\ Count(board, Opponent(call.piece))
              = Count(old, Opponent(call.piece)) - Cardinality(Flipped)

\* C8 witness: a successful place has flipped two cells or more.
C8_Witness ==
    /\ Returned("place")
    /\ result.tag = "Ok"
    /\ Cardinality(Flipped) >= 2

\* C9: a newly constructed board has exactly 4 occupied cells: White at
\* (3,3) and (4,4), Black at (4,3) and (3,4); the other 60 are empty.
C9_StartingLayout ==
    (moves = 0 /\ pc = "idle") =>
        /\ DOMAIN board = 0 .. 63
        /\ Cardinality(Occupied(board)) = 4
        /\ At(board, 3, 3) = "White" /\ At(board, 4, 4) = "White"
        /\ At(board, 4, 3) = "Black" /\ At(board, 3, 4) = "Black"
        /\ Cardinality({ i \in 0 .. 63 : board[i] = "None" }) = 60

\* C9 witness: the new game, before any call.
C9_Witness ==
    /\ moves = 0
    /\ pc = "idle"
    /\ call.op = "none"
    /\ At(board, 3, 3) = "White"

\* C10: adjacent(x, y) is Ok(true) iff some neighbour of (x, y) on the
\* board is occupied, whatever (x, y) itself holds, and is never an error;
\* on a new board adjacent(0, 0) is false and adjacent(2, 3) is true.
C10_AdjacentIsNeighbourTest ==
    Returned("adjacent") =>
        /\ result = Ok(<<Touches(old, call.x, call.y)>>)
        /\ (call.x = 0 /\ call.y = 0 /\ old = StartLayout)
              => result = Ok(<<FALSE>>)
        /\ (call.x = 2 /\ call.y = 3 /\ old = StartLayout)
              => result = Ok(<<TRUE>>)

\* C10 witness: adjacent on an occupied corner cell whose only occupied
\* neighbour is the diagonal one has returned true.
C10_Witness ==
    /\ Returned("adjacent")
    /\ call.x = 7 /\ call.y = 7
    /\ At(old, 7, 7) # "None"
    /\ At(old, 6, 6) # "None"
    /\ At(old, 6, 7) = "None" /\ At(old, 7, 6) = "None"
    /\ result = Ok(<<TRUE>>)

\* C11: for every game state and every (x, y, piece), coordinates at or
\* beyond 8 included, place returns Ok or one of the five errors and never
\* panics: no bounds assertion of adjacent, flips or flip is evaluated
\* with x >= 8 or y >= 8.
C11_PlaceNeverPanics ==
    Returned("place") =>
        /\ result.tag \in {"Ok", "Occupied", "Turn", "NotAdjacent",
                           "OutOfBounds", "NoFlips"}
        /\ \A i \in 1 .. Len(trace) :
              trace[i][1] = "assert" => (trace[i][2] < 8 /\ trace[i][3] < 8)
        /\ ~OnBoard(call.x, call.y) => trace = << >>

\* C11 witness: the side due to move has called place with both
\* coordinates beyond the board and got OutOfBounds.
C11_Witness ==
    /\ Returned("place")
    /\ call.x >= 8 /\ call.y >= 8
    /\ call.piece = oldTurn
    /\ moves > 0
    /\ result.tag = "OutOfBounds"

\* C12 as stated: when flip(x, y, piece) has converted at least one cell,
\* a second flip(x, y, piece) changes the board again.
C12_Original ==
    (Returned("flip") /\ board # old) =>
        flip(board, call.x, call.y, call.piece) # board

\* C12 amended: flip is idempotent: a second flip(x, y, piece) with the
\* same arguments leaves the board as the first call left it.
C12_FlipIdempotent ==
    Returned("flip") => flip(board, call.x, call.y, call.piece) = board

\* C12 witness: a flip call has converted two cells or more.
C12_Witness ==
    /\ Returned("flip")
    /\ Cardinality({ i \in 0 .. 63 : board[i] # old[i] }) >= 2

\* C13: the number of cells that differ before and after flip(x, y, piece)
\* is the value flips(x, y, piece) returns on the board before the call,
\* and each of them held the opponent piece before and holds piece after.
C13_FlipChangesFlipsCells ==
    Returned("flip") =>
        LET changed == { i \in 0 .. 63 : board[i] # old[i] }
        IN  /\ Cardinality(changed)
                  = flips(old, call.x, call.y, call.piece)
            /\ \A i \in changed :
                  old[i] = Opponent(call.piece) /\ board[i] = call.piece

\* C13 witness: a flip call has converted cells in two directions or more.
C13_Witness ==
    /\ Returned("flip")
    /\ Cardinality({ d \in Dirs :
           /\ Holds(old, call.x, call.y, d, 1, Opponent(call.piece))
           /\ Holds(board, call.x, call.y, d, 1, call.piece) }) >= 2

\* the occupied cells of a board
Pieces(b) == { i \in 0 .. 63 : b[i] # "None" }

\* C14: the number of occupied cells is 4 plus the number of successful
\* place calls: each success adds exactly one piece, no occupied cell ever
\* becomes empty, and so at most 60 calls can succeed.
C14_OnePiecePerSuccess ==
    /\ Cardinality(Pieces(board)) = 4 + moves
    /\ 4 + moves <= 64
    /\ Returned("place") =>
          /\ \A i \in 0 .. 63 : old[i] # "None" => board[i] # "None"
          /\ Cardinality(Pieces(board))
                = Cardinality(Pieces(old))
                    + (IF result.tag = "Ok" THEN 1 ELSE 0)

\* C14 witness: the fifth successful place has returned, having flipped
\* two cells or more.
C14_Witness ==
    /\ Returned("place")
    /\ result.tag = "Ok"
    /\ moves = 5
    /\ Cardinality(Flipped) >= 2

\* cells i and j are 8-neighbours
Neighbours(i, j) ==
    /\ i # j
    /\ (i % 8) - (j % 8) \in -1 .. 1
    /\ (i \div 8) - (j \div 8) \in -1 .. 1

\* the occupied cells reached from the set S through chains of occupied
\* 8-neighbours
RECURSIVE Region(_, _)
Region(b, S) ==
    LET T == S \cup { i \in Pieces(b) : \E j \in S : Neighbours(i, j) }
    IN  IF T = S THEN S ELSE Region(b, T)

\* C15: in every game state the occupied cells form a single 8-connected
\* region: every piece is reached from cell (3,3) through a chain of
\* occupied cells in which consecutive cells are 8-neighbours.
C15_SingleRegion ==
    pc = "idle" =>
        /\ board[3 + 8 * 3] # "None"
        /\ Region(board, {3 + 8 * 3}) = Pieces(board)

\* C15 witness: a game with 8 pieces or more, one of them two columns or
\* more away from the starting square, is waiting for the next call.
C15_Witness ==
    /\ pc = "idle"
    /\ Cardinality(Pieces(board)) >= 8
    /\ \E i \in Pieces(board) : (i % 8) <= 1 \/ (i % 8) >= 6

\* C16: flips(x, y, piece) > 0 implies adjacent(x, y) is true, so a cell
\* that fails the adjacency check would not have passed the flip-count
\* check either.
C16_FlipsImpliesAdjacent ==
    (Returned("flips") /\ result.args[1] > 0) =>
        /\ adjacent(old, call.x, call.y) = Ok(<<TRUE>>)
        /\ Touches(old, call.x, call.y)

\* C16 witness: flips has returned a positive count for a cell whose only
\* occupied neighbours are diagonal ones.
C16_Witness ==
    /\ Returned("flips")
    /\ result.args[1] > 0
    /\ \A d \in Dirs : \A p \in Piece :
          Holds(old, call.x, call.y, d, 1, p) => (d[1] # 0 /\ d[2] # 0)

\* C17: the opponent-of operation is a fixed-point-free involution: the
\* opponent of Black is White, of White is Black, the opponent of the
\* opponent of p is p and the opponent of p differs from p.
C17_NotInvolution ==
    Returned("not") =>
        LET p == call.piece
            q == result.args[1]
        IN  /\ q \in {"Black", "White"}
            /\ q # p
            /\ p = "Black" => q = "White"
            /\ p = "White" => q = "Black"
            /\ Not(q) = p

\* C17 witness: !White has returned Black.
C17_Witness ==
    /\ Returned("not")
    /\ call.piece = "White"
    /\ result = Ok(<<"Black">>)

\* C18: for an in-bounds origin, adjacent, flips and flip only read or
\* write cells with 0 <= x, y < 8, flat index x + 8*y in 0..63; no
\* usize::try_from receives a negative value, no i8 value leaves
\* -128..127, and no directional walk makes more than 7 iterations.
C18_AccessesInBounds ==
    ( /\ pc = "returned"
      /\ call.op \in {"adjacent", "flips", "flip"}
      /\ OnBoard(call.x, call.y) ) =>
        \A i \in 1 .. Len(trace) :
            LET kind == trace[i][1]
                a == trace[i][2]
                b == trace[i][3]
                k == trace[i][4]
            IN  /\ kind \in {"index", "iter"} =>
                      /\ a \in 0 .. 7 /\ b \in 0 .. 7
                      /\ a + 8 * b \in 0 .. 63
                /\ kind \in {"usize", "iter"} => (a >= 0 /\ b >= 0)
                /\ kind \in {"i8", "add1", "add2"} =>
                      (a \in -128 .. 127 /\ b \in -128 .. 127)
                /\ kind = "iter" => k <= 7

\* C18 witness: a flips call from the corner (0, 0) has walked the 7 cells
\* of the top row, stopped at x = 8, and stepped to -1 in another
\* direction.
C18_Witness ==
    /\ Returned("flips")
    /\ call.x = 0 /\ call.y = 0
    /\ \E i \in 1 .. Len(trace) : trace[i] = <<"iter", 7, 0, 7>>
    /\ \E i \in 1 .. Len(trace) : trace[i] = <<"add2", 8, 0, 0>>
    /\ \E i \in 1 .. Len(trace) : trace[i] = <<"add2", -1, -1, 0>>

====
